---- MODULE Spec2Model ----
(***************************************************************************)
(* Model of memory_addr's address layer (src/memory_addr/src/addr.rs):     *)
(* the MemoryAddr trait's alignment and arithmetic methods and the address *)
(* types generated by def_usize_addr!.                                     *)
(*                                                                         *)
(* An address is a record [kind, val]: `kind` is the generated type's name *)
(* and `val` is the struct's single usize field.  A method that can panic  *)
(* returns an outcome record, Ok(v) or Panic.  A caller draws a word,      *)
(* builds an address from it, calls one method on it, and may then call    *)
(* the inverse method on the result, as the crate's tests do.              *)
(***************************************************************************)
EXTENDS Integers, Sequences, FiniteSets, TLC

\* Width of usize / isize in bits.
WordBits == 16

\* How far around each power of two the sampled words reach.
Radius == 2

Modulus == 2 ^ WordBits

UsizeMax == Modulus - 1

IsizeMin == 0 - (2 ^ (WordBits - 1))

IsizeMax == (2 ^ (WordBits - 1)) - 1

\* crate::PAGE_SIZE_4K
PAGE_SIZE_4K == 4096

\* The address types generated by def_usize_addr! at addr.rs:360-366.
Kinds == {"PhysAddr", "VirtAddr"}

\* The words the crate's tests use (0x100, 0x123, 0x223, 0x1234, 0x1abc,
\* 0x2000, 0x2123, 0x2223, 0x5678, 0x9abc, 0xdef0, usize::MAX - 0x100).
TestWords ==
    {256, 291, 547, 4660, 6844, 8192, 8483, 8739, 22136, 39612, 57072,
     UsizeMax - 256}

\* The words a caller passes: every power of two of the word and its
\* neighbours (so 0, 1, the sign boundary and usize::MAX), and the tests' words.
Words ==
    { x \in { (2 ^ i) + j : i \in 0..WordBits, j \in (0 - Radius)..Radius } \cup TestWords :
        x >= 0 /\ x <= UsizeMax }

\* `x as isize`: the two's complement reading of a word.
AsIsize(x) == IF x > IsizeMax THEN x - Modulus ELSE x

\* `n as usize`: the word holding a signed value.
AsUsize(n) == IF n < 0 THEN n + Modulus ELSE n

\* The signed displacements a caller passes.
Deltas == { AsIsize(x) : x \in Words }

\* The result of a call that returned v, and of a call that panicked.
Ok(v) == [fault |-> FALSE, val |-> v]

Panic == [fault |-> TRUE]

\* Option<usize>
Some(v) == [some |-> TRUE, v |-> v]

None == [some |-> FALSE]

\* Option::unwrap
unwrap(opt) == IF opt.some THEN Ok(opt.v) ELSE Panic

\* Bitwise `&` and `!` on usize.
RECURSIVE BitAnd(_, _)
BitAnd(x, y) ==
    IF x = 0 \/ y = 0 THEN 0
    ELSE ((x % 2) * (y % 2)) + 2 * BitAnd(x \div 2, y \div 2)

BitNot(x) == UsizeMax - x

----------------------------------------------------------------------------
\* Integer primitives of core used by the trait's methods.

usize_wrapping_add(a, b) == (a + b) % Modulus

usize_wrapping_sub(a, b) == (a - b) % Modulus

usize_overflowing_add(a, b) == <<(a + b) % Modulus, a + b > UsizeMax>>

usize_overflowing_sub(a, b) == <<(a - b) % Modulus, a < b>>

usize_checked_add(a, b) ==
    LET r == usize_overflowing_add(a, b) IN IF r[2] THEN None ELSE Some(r[1])

usize_checked_sub(a, b) ==
    LET r == usize_overflowing_sub(a, b) IN IF r[2] THEN None ELSE Some(r[1])

\* overflowing_add_signed: add `rhs as usize`, and flip the carry when rhs < 0.
usize_overflowing_add_signed(a, n) ==
    LET r == usize_overflowing_add(a, AsUsize(n)) IN <<r[1], r[2] # (n < 0)>>

usize_checked_add_signed(a, n) ==
    LET r == usize_overflowing_add_signed(a, n) IN IF r[2] THEN None ELSE Some(r[1])

usize_wrapping_add_signed(a, n) == usize_wrapping_add(a, AsUsize(n))

\* Unary minus on isize: it overflows for isize::MIN alone, where a build with
\* overflow checks panics and a build without them yields isize::MIN again.
isize_neg(n) == IF n = IsizeMin THEN {Panic, Ok(IsizeMin)} ELSE {Ok(0 - n)}

----------------------------------------------------------------------------
\* The crate's alignment functions on raw words.

crate_align_down(addr, align) == BitAnd(addr, BitNot((align - 1) % Modulus))

crate_align_up(addr, align) ==
    BitAnd((addr + align - 1) % Modulus, BitNot((align - 1) % Modulus))

crate_align_offset(addr, align) == BitAnd(addr, (align - 1) % Modulus)

crate_is_aligned(addr, align) == crate_align_offset(addr, align) = 0

----------------------------------------------------------------------------
\* What def_usize_addr! generates for each `$name`.

from_usize(kind, addr) == [kind |-> kind, val |-> addr]

as_usize(self) == self.val

\* impl From<usize> for $name
From(kind, addr) == [kind |-> kind, val |-> addr]

\* impl From<$name> for usize
Into(self) == self.val

\* An ordering that runs the other way.
cmp_reversed(self, other) ==
    IF self.val > other.val THEN "Less"
    ELSE IF self.val = other.val THEN "Equal" ELSE "Greater"

\* #[derive(Ord, PartialOrd)]: compares the single field.
cmp(self, other) ==
    IF self.val < other.val THEN "Less"
    ELSE IF self.val = other.val THEN "Equal" ELSE "Greater"

\* #[derive(Eq, PartialEq)]
eq(self, other) == self.val = other.val

ne(self, other) == ~eq(self, other)

lt(self, other) == cmp(self, other) = "Less"

le(self, other) == cmp(self, other) \in {"Less", "Equal"}

gt(self, other) == cmp(self, other) = "Greater"

ge(self, other) == cmp(self, other) \in {"Greater", "Equal"}

\* address - address with its two operands exchanged.
sub_addr_swapped(self, rhs) ==
    IF rhs.val >= self.val THEN {Ok(rhs.val - self.val)}
    ELSE {Panic, Ok((rhs.val - self.val) % Modulus)}

\* impl Sub<$name> for $name: `self.0 - rhs.0`.  The subtraction overflows
\* when self.0 < rhs.0: a build with overflow checks panics there, a build
\* without them returns the wrapped difference.
sub_addr(self, rhs) ==
    IF self.val >= rhs.val THEN {Ok(self.val - rhs.val)}
    ELSE {Panic, Ok((self.val - rhs.val) % Modulus)}

----------------------------------------------------------------------------
\* The MemoryAddr trait's provided methods.  `Self::from` builds an address of
\* the receiver's own type.

\* align_down that delegates to the upward rounding.
align_down_rounding_up(self, align) ==
    From(self.kind, crate_align_up(Into(self), align))

align_down(self, align) == From(self.kind, crate_align_down(Into(self), align))

\* align_up that delegates to the downward rounding.
align_up_rounding_down(self, align) ==
    From(self.kind, crate_align_down(Into(self), align))

align_up(self, align) == From(self.kind, crate_align_up(Into(self), align))

\* align_offset with its two arguments exchanged.
align_offset_swapped(self, align) == crate_align_offset(align, Into(self))

align_offset(self, align) == crate_align_offset(Into(self), align)

is_aligned(self, align) == crate_is_aligned(Into(self), align)

align_down_4k(self) == From(self.kind, crate_align_down(Into(self), PAGE_SIZE_4K))

align_up_4k(self) == From(self.kind, crate_align_up(Into(self), PAGE_SIZE_4K))

align_offset_4k(self) == crate_align_offset(Into(self), PAGE_SIZE_4K)

is_aligned_4k(self) == crate_is_aligned(Into(self), PAGE_SIZE_4K)

\* offset that wraps instead of checking.
offset_unchecked(self, delta) ==
    Ok(From(self.kind, usize_wrapping_add_signed(Into(self), delta)))

offset(self, delta) ==
    LET r == unwrap(usize_checked_add_signed(Into(self), delta))
    IN  IF r.fault THEN Panic ELSE Ok(From(self.kind, r.val))

wrapping_offset(self, delta) ==
    From(self.kind, usize_wrapping_add_signed(Into(self), delta))

\* offset_from with the sign test taken as `result >= 0`.
offset_from_nonneg(self, base) ==
    LET result == AsIsize(usize_wrapping_sub(Into(self), Into(base)))
    IN  IF (result >= 0) # lt(base, self) THEN Panic ELSE Ok(result)

offset_from(self, base) ==
    LET result == AsIsize(usize_wrapping_sub(Into(self), Into(base)))
    IN  IF (result > 0) # lt(base, self) THEN Panic ELSE Ok(result)

add(self, rhs) ==
    LET r == unwrap(usize_checked_add(Into(self), rhs))
    IN  IF r.fault THEN Panic ELSE Ok(From(self.kind, r.val))

wrapping_add(self, rhs) == From(self.kind, usize_wrapping_add(Into(self), rhs))

\* overflowing_add that drops the carry.
overflowing_add_unflagged(self, rhs) ==
    <<From(self.kind, usize_wrapping_add(Into(self), rhs)), FALSE>>

overflowing_add(self, rhs) ==
    LET r == usize_overflowing_add(Into(self), rhs)
    IN  <<From(self.kind, r[1]), r[2]>>

\* sub with its two operands exchanged.
sub_swapped(self, rhs) ==
    LET r == unwrap(usize_checked_sub(rhs, Into(self)))
    IN  IF r.fault THEN Panic ELSE Ok(From(self.kind, r.val))

sub(self, rhs) ==
    LET r == unwrap(usize_checked_sub(Into(self), rhs))
    IN  IF r.fault THEN Panic ELSE Ok(From(self.kind, r.val))

\* wrapping_sub that saturates at zero.
wrapping_sub_saturating(self, rhs) ==
    From(self.kind, IF Into(self) < rhs THEN 0 ELSE Into(self) - rhs)

wrapping_sub(self, rhs) == From(self.kind, usize_wrapping_sub(Into(self), rhs))

overflowing_sub(self, rhs) ==
    LET r == usize_overflowing_sub(Into(self), rhs)
    IN  <<From(self.kind, r[1]), r[2]>>

----------------------------------------------------------------------------
\* The caller.  `word` is the integer it starts from, `recv` the address built
\* from it, and `calls` the calls made so far: the method, its argument and
\* its outcome.

VARIABLES word, recv, calls

vars == <<word, recv, calls>>

Init ==
    /\ word \in Words
    /\ \E kind \in Kinds : recv = from_usize(kind, word)
    /\ calls = <<>>

\* One call is recorded; the receiver itself is a value and never changes.
Call(name, a, o) ==
    /\ calls' = Append(calls, [op |-> name, arg |-> a, out |-> o])
    /\ UNCHANGED <<word, recv>>

Fresh == calls = <<>>

\* The first call was `name` and returned an address.
Returned(name) ==
    /\ Len(calls) = 1
    /\ calls[1].op = name
    /\ ~calls[1].out.fault

\* Conversions back to an integer.
AsUsizeCall == Fresh /\ Call("as_usize", 0, Ok(as_usize(recv)))

IntoCall == Fresh /\ Call("into", 0, Ok(Into(recv)))

\* Comparisons with another address of the same type.
LtCall ==
    /\ Fresh
    /\ \E w \in Words : LET other == From(recv.kind, w) IN Call("lt", other, Ok(lt(recv, other)))

LeCall ==
    /\ Fresh
    /\ \E w \in Words : LET other == From(recv.kind, w) IN Call("le", other, Ok(le(recv, other)))

GtCall ==
    /\ Fresh
    /\ \E w \in Words : LET other == From(recv.kind, w) IN Call("gt", other, Ok(gt(recv, other)))

GeCall ==
    /\ Fresh
    /\ \E w \in Words : LET other == From(recv.kind, w) IN Call("ge", other, Ok(ge(recv, other)))

EqCall ==
    /\ Fresh
    /\ \E w \in Words : LET other == From(recv.kind, w) IN Call("eq", other, Ok(eq(recv, other)))

NeCall ==
    /\ Fresh
    /\ \E w \in Words : LET other == From(recv.kind, w) IN Call("ne", other, Ok(ne(recv, other)))

\* address - address
SubAddrCall ==
    /\ Fresh
    /\ \E w \in Words : LET other == From(recv.kind, w) IN
         \E o \in sub_addr(recv, other) : Call("sub_addr", other, o)

\* Alignment.
AlignDownCall ==
    /\ Fresh
    /\ \E align \in Words : Call("align_down", align, Ok(align_down(recv, align)))

AlignUpCall ==
    /\ Fresh
    /\ \E align \in Words : Call("align_up", align, Ok(align_up(recv, align)))

AlignOffsetCall ==
    /\ Fresh
    /\ \E align \in Words : Call("align_offset", align, Ok(align_offset(recv, align)))

IsAlignedCall ==
    /\ Fresh
    /\ \E align \in Words : Call("is_aligned", align, Ok(is_aligned(recv, align)))

AlignDown4kCall == Fresh /\ Call("align_down_4k", 0, Ok(align_down_4k(recv)))

AlignUp4kCall == Fresh /\ Call("align_up_4k", 0, Ok(align_up_4k(recv)))

AlignOffset4kCall == Fresh /\ Call("align_offset_4k", 0, Ok(align_offset_4k(recv)))

IsAligned4kCall == Fresh /\ Call("is_aligned_4k", 0, Ok(is_aligned_4k(recv)))

\* Arithmetic.
OffsetCall ==
    /\ Fresh
    /\ \E delta \in Deltas : Call("offset", delta, offset(recv, delta))

WrappingOffsetCall ==
    /\ Fresh
    /\ \E delta \in Deltas : Call("wrapping_offset", delta, Ok(wrapping_offset(recv, delta)))

OffsetFromCall ==
    /\ Fresh
    /\ \E w \in Words : LET base == From(recv.kind, w) IN
         Call("offset_from", base, offset_from(recv, base))

AddCall ==
    /\ Fresh
    /\ \E rhs \in Words : Call("add", rhs, add(recv, rhs))

WrappingAddCall ==
    /\ Fresh
    /\ \E rhs \in Words : Call("wrapping_add", rhs, Ok(wrapping_add(recv, rhs)))

OverflowingAddCall ==
    /\ Fresh
    /\ \E rhs \in Words : Call("overflowing_add", rhs, Ok(overflowing_add(recv, rhs)))

SubCall ==
    /\ Fresh
    /\ \E rhs \in Words : Call("sub", rhs, sub(recv, rhs))

WrappingSubCall ==
    /\ Fresh
    /\ \E rhs \in Words : Call("wrapping_sub", rhs, Ok(wrapping_sub(recv, rhs)))

OverflowingSubCall ==
    /\ Fresh
    /\ \E rhs \in Words : Call("overflowing_sub", rhs, Ok(overflowing_sub(recv, rhs)))

\* A second call on the address the first one returned, with the first call's
\* argument or its negation.
ThenSub ==
    /\ Returned("add")
    /\ Call("sub", calls[1].arg, sub(calls[1].out.val, calls[1].arg))

ThenWrappingSub ==
    /\ Returned("wrapping_add")
    /\ Call("wrapping_sub", calls[1].arg, Ok(wrapping_sub(calls[1].out.val, calls[1].arg)))

ThenOffsetNeg ==
    /\ Returned("offset")
    /\ \E m \in isize_neg(calls[1].arg) :
         IF m.fault
         THEN Call("neg", calls[1].arg, Panic)
         ELSE Call("offset", m.val, offset(calls[1].out.val, m.val))

ThenWrappingOffsetNeg ==
    /\ Returned("wrapping_offset")
    /\ \E m \in isize_neg(calls[1].arg) :
         IF m.fault
         THEN Call("neg", calls[1].arg, Panic)
         ELSE Call("wrapping_offset", m.val, Ok(wrapping_offset(calls[1].out.val, m.val)))

ThenAlignDown ==
    /\ Returned("align_down")
    /\ Call("align_down", calls[1].arg, Ok(align_down(calls[1].out.val, calls[1].arg)))

Next ==
    \/ AsUsizeCall \/ IntoCall
    \/ LtCall \/ LeCall \/ GtCall \/ GeCall \/ EqCall \/ NeCall
    \/ SubAddrCall
    \/ AlignDownCall \/ AlignUpCall \/ AlignOffsetCall \/ IsAlignedCall
    \/ AlignDown4kCall \/ AlignUp4kCall \/ AlignOffset4kCall \/ IsAligned4kCall
    \/ OffsetCall \/ WrappingOffsetCall \/ OffsetFromCall
    \/ AddCall \/ WrappingAddCall \/ OverflowingAddCall
    \/ SubCall \/ WrappingSubCall \/ OverflowingSubCall
    \/ ThenSub \/ ThenWrappingSub \/ ThenOffsetNeg \/ ThenWrappingOffsetNeg
    \/ ThenAlignDown

Spec == Init /\ [][Next]_vars

----------------------------------------------------------------------------
\* Properties.

\* The first call made was `name`.
First(name) == Len(calls) >= 1 /\ calls[1].op = name

\* Two calls were made and the first was `name`.
Chained(name) == Len(calls) = 2 /\ calls[1].op = name

\* A power-of-two alignment of the word.
IsPow2(k) == k \in { 2 ^ i : i \in 0..(WordBits - 1) }

InUsize(x) == x >= 0 /\ x <= UsizeMax

\* C1: offset_from(base) panics exactly when the true difference self - base
\* lies outside [isize::MIN, isize::MAX], in either direction, and otherwise
\* returns exactly self - base (self == base and self - base == isize::MIN
\* included).
C1_OffsetFromExact ==
    First("offset_from") =>
        LET d == word - calls[1].arg.val
        IN  /\ calls[1].out.fault <=> (d < IsizeMin \/ d > IsizeMax)
            /\ ~calls[1].out.fault => calls[1].out.val = d

C1_Witness ==
    /\ First("offset_from")
    /\ word - calls[1].arg.val = IsizeMin
    /\ calls[1].out = Ok(IsizeMin)

\* C2: offset, add and sub panic exactly when the exact result a + delta,
\* a + rhs, a - rhs lies outside [0, usize::MAX], and otherwise return the
\* address holding that exact result; no wrapped address is returned.
C2_CheckedExact ==
    (Len(calls) >= 1 /\ calls[1].op \in {"offset", "add", "sub"}) =>
        LET exact == IF calls[1].op = "sub" THEN word - calls[1].arg
                     ELSE word + calls[1].arg
        IN  /\ calls[1].out.fault <=> ~InUsize(exact)
            /\ ~calls[1].out.fault =>
                 /\ calls[1].out.val.val = exact
                 /\ calls[1].out.val.kind = recv.kind

C2_Witness ==
    /\ First("offset")
    /\ word = UsizeMax
    /\ calls[1].arg = 1
    /\ calls[1].out = Panic

\* C3: wrapping_add, wrapping_sub and wrapping_offset never panic and return
\* the exact result reduced modulo 2^w; wrapping_offset(-d) on the result of
\* wrapping_offset(d) gives the starting address back.
C3_WrappingModular ==
    /\ (Len(calls) >= 1 /\ calls[1].op \in {"wrapping_add", "wrapping_sub", "wrapping_offset"}) =>
        LET exact == IF calls[1].op = "wrapping_sub" THEN word - calls[1].arg
                     ELSE word + calls[1].arg
        IN  /\ ~calls[1].out.fault
            /\ calls[1].out.val.kind = recv.kind
            /\ InUsize(calls[1].out.val.val)
            /\ \E q \in {-1, 0, 1} : calls[1].out.val.val = exact + q * Modulus
    /\ (Chained("wrapping_offset") /\ calls[2].op = "wrapping_offset") =>
        calls[2].out = Ok(recv)
    /\ (Chained("wrapping_add") /\ calls[2].op = "wrapping_sub") =>
        calls[2].out = Ok(recv)

\* The displacement took the address across the wrap point and its negation
\* brought it back.
C3_Witness ==
    /\ Chained("wrapping_offset")
    /\ calls[2].op = "wrapping_offset"
    /\ calls[1].arg > 0
    /\ calls[1].out.val.val < word
    /\ calls[2].out = Ok(recv)

\* C4: overflowing_add and overflowing_sub never panic; the address returned
\* is the one wrapping_add / wrapping_sub return, and the flag is true exactly
\* when the exact result is outside [0, usize::MAX], which is when add / sub
\* panic.
C4_OverflowingFlagged ==
    /\ First("overflowing_add") =>
        /\ ~calls[1].out.fault
        /\ calls[1].out.val[1] = wrapping_add(recv, calls[1].arg)
        /\ calls[1].out.val[2] = ~InUsize(word + calls[1].arg)
        /\ calls[1].out.val[2] = add(recv, calls[1].arg).fault
    /\ First("overflowing_sub") =>
        /\ ~calls[1].out.fault
        /\ calls[1].out.val[1] = wrapping_sub(recv, calls[1].arg)
        /\ calls[1].out.val[2] = ~InUsize(word - calls[1].arg)
        /\ calls[1].out.val[2] = sub(recv, calls[1].arg).fault

C4_Witness ==
    /\ First("overflowing_sub")
    /\ word = 0
    /\ calls[1].arg = 1
    /\ calls[1].out = Ok(<<From(recv.kind, UsizeMax), TRUE>>)

\* C5: for a power-of-two k, align_down(k) applied twice gives what it gives
\* once, align_down(k) <= a, and a <= align_up(k) when a + k - 1 fits the word.
C5_AlignIdempotentBracket ==
    /\ (Chained("align_down") /\ IsPow2(calls[1].arg)) =>
        calls[2].out = calls[1].out
    /\ (First("align_down") /\ IsPow2(calls[1].arg)) =>
        /\ le(calls[1].out.val, recv)
        /\ calls[1].out.val.val <= word
    /\ (First("align_up") /\ IsPow2(calls[1].arg) /\ InUsize(word + calls[1].arg - 1)) =>
        /\ le(recv, calls[1].out.val)
        /\ word <= calls[1].out.val.val

C5_Witness ==
    /\ Chained("align_down")
    /\ IsPow2(calls[1].arg)
    /\ calls[1].out.val.val < word
    /\ calls[2].out = calls[1].out

\* C6: for a power-of-two k, align_offset(k) is a minus align_down(k), which
\* is a mod k and below k; is_aligned(k) holds exactly when align_offset(k) is
\* 0; the _4k methods give what the generic ones give for k = 4096.
C6_AlignOffsetLaw ==
    /\ (First("align_offset") /\ IsPow2(calls[1].arg)) =>
        /\ calls[1].out.val = word - as_usize(align_down(recv, calls[1].arg))
        /\ calls[1].out.val = word % calls[1].arg
        /\ calls[1].out.val < calls[1].arg
    /\ (First("is_aligned") /\ IsPow2(calls[1].arg)) =>
        /\ calls[1].out.val <=> (align_offset(recv, calls[1].arg) = 0)
        /\ calls[1].out.val <=> (word % calls[1].arg = 0)
    /\ First("align_down_4k") => calls[1].out.val = align_down(recv, 4096)
    /\ First("align_up_4k") => calls[1].out.val = align_up(recv, 4096)
    /\ First("align_offset_4k") => calls[1].out.val = align_offset(recv, 4096)
    /\ First("is_aligned_4k") => calls[1].out.val = is_aligned(recv, 4096)

\* The tests' case: 0x2123 at alignment 0x1000 has offset 0x123.
C6_Witness ==
    /\ First("align_offset")
    /\ word = 8483
    /\ calls[1].arg = 4096
    /\ calls[1].out = Ok(291)

\* C7 as stated: whenever a.add(d) does not overflow, a.add(d).sub(d) == a,
\* and whenever a.offset(n) does not overflow, n == isize::MIN included,
\* a.offset(n).offset(-n) == a.
C7_InverseAnyDelta ==
    /\ Chained("add") => calls[2].out = Ok(recv)
    /\ Chained("offset") => calls[2].out = Ok(recv)

\* C7 amended: a.add(d).sub(d) == a whenever a.add(d) does not overflow, and
\* a.offset(n).offset(-n) == a whenever a.offset(n) does not overflow and n is
\* not isize::MIN; for n == isize::MIN the negation overflows, and the second
\* offset panics or is never reached.
C7_InverseExceptMin ==
    /\ Chained("add") => calls[2].out = Ok(recv)
    /\ (Chained("offset") /\ calls[1].arg # IsizeMin) =>
        /\ calls[2].op = "offset"
        /\ calls[2].arg = 0 - calls[1].arg
        /\ calls[2].out = Ok(recv)
    /\ (Chained("offset") /\ calls[1].arg = IsizeMin) => calls[2].out = Panic

C7_Witness ==
    /\ Chained("offset")
    /\ calls[1].arg < 0
    /\ calls[1].arg # IsizeMin
    /\ calls[2].out = Ok(recv)

\* C8 as stated: a - b yields a.int - b.int when a >= b and never panics,
\* a < b included.
C8_SubAddrNeverFaults ==
    First("sub_addr") =>
        /\ ~calls[1].out.fault
        /\ word >= calls[1].arg.val => calls[1].out.val = word - calls[1].arg.val

\* C8 amended: a - b yields a.int - b.int without panicking when a >= b,
\* agreeing with offset_from wherever offset_from returns; when a < b it
\* either panics (builds with overflow checks) or returns a.int - b.int + 2^w
\* (builds without them).
C8_SubAddrDistanceOrOverflow ==
    First("sub_addr") =>
        /\ word >= calls[1].arg.val =>
             /\ calls[1].out = Ok(word - calls[1].arg.val)
             /\ LET d == offset_from(recv, calls[1].arg)
                IN  ~d.fault => d = calls[1].out
        /\ word < calls[1].arg.val =>
             \/ calls[1].out = Panic
             \/ calls[1].out = Ok(word - calls[1].arg.val + Modulus)

\* The tests' case: 0x2223 - 0x2000 = 0x223.
C8_Witness ==
    /\ First("sub_addr")
    /\ word = 8739
    /\ calls[1].arg.val = 8192
    /\ calls[1].out = Ok(547)

\* C9: an address built from v converts back to v by as_usize and by Into,
\* from_usize and From build equal addresses, and addresses compare as their
\* integers do.
C9_RoundTripOrdering ==
    /\ recv = from_usize(recv.kind, word)
    /\ recv = From(recv.kind, word)
    /\ First("as_usize") => calls[1].out = Ok(word)
    /\ First("into") => calls[1].out = Ok(word)
    /\ First("lt") => calls[1].out = Ok(word < Into(calls[1].arg))
    /\ First("le") => calls[1].out = Ok(word <= Into(calls[1].arg))
    /\ First("gt") => calls[1].out = Ok(word > Into(calls[1].arg))
    /\ First("ge") => calls[1].out = Ok(word >= Into(calls[1].arg))
    /\ First("eq") => calls[1].out = Ok(word = Into(calls[1].arg))
    /\ First("ne") => calls[1].out = Ok(word # Into(calls[1].arg))

C9_Witness ==
    /\ First("lt")
    /\ word = 4660
    /\ Into(calls[1].arg) = UsizeMax
    /\ calls[1].out = Ok(TRUE)

\* C10: for a power-of-two k, align_down(k) is the largest multiple of k that
\* is <= a, and, when a + k - 1 fits the word, align_up(k) is the smallest
\* multiple of k that is >= a (r is that multiple exactly when k divides r and
\* r lies less than k away from a on the right side); both are aligned, an
\* aligned address is returned unchanged, and for an unaligned one
\* align_up(k) == align_down(k) + k.
C10_AlignNearestMultiple ==
    /\ (First("align_down") /\ IsPow2(calls[1].arg)) =>
        LET k == calls[1].arg
            r == calls[1].out.val.val
        IN  /\ r % k = 0
            /\ r <= word
            /\ word - r < k
            /\ is_aligned(calls[1].out.val, k)
            /\ word % k = 0 => calls[1].out.val = recv
    /\ (First("align_up") /\ IsPow2(calls[1].arg) /\ InUsize(word + calls[1].arg - 1)) =>
        LET k == calls[1].arg
            r == calls[1].out.val.val
        IN  /\ r % k = 0
            /\ r >= word
            /\ r - word < k
            /\ is_aligned(calls[1].out.val, k)
            /\ word % k = 0 => calls[1].out.val = recv
            /\ word % k # 0 => r = as_usize(align_down(recv, k)) + k

\* The tests' case: 0x2123 aligned up to 0x1000 is 0x3000.
C10_Witness ==
    /\ First("align_up")
    /\ word = 8483
    /\ calls[1].arg = 4096
    /\ calls[1].out = Ok(From(recv.kind, 12288))

====
